---- MODULE Spec2Model ----
(***************************************************************************)
(* Appointment booking backend: the Express routes of                      *)
(* src/src/routes/appointmentRoutes.js behind src/src/middleware/          *)
(* authMiddleware.js, the Google calendar they relabel and the Appointment *)
(* table of src/prisma/migrations/20251203201517_init/migration.sql.       *)
(*                                                                         *)
(* Every handler is an async function: it runs synchronously up to an      *)
(* await, and other requests run between its awaits.  One action of the    *)
(* model is one such segment together with the remote call it awaits.      *)
(***************************************************************************)
EXTENDS Integers, Sequences, FiniteSets, TLC

\* ---------------------------------------------------------------- bounds
\* number of requests that can be in flight at the same time
NumReq == 2
\* number of Appointment rows the bookings may create
MaxRows == 2

Req == 1..NumReq

\* ------------------------------------------------------- JS / SQL values
Undefined == "undefined"
Null == "NULL"
\* `data: event` of a get that resolved without a body
NoEvent == [f \in {} |-> f]
NoBody == << >>

\* users of the User table (the ids a valid JWT can decode to)
Patients == {"p1", "p2"}
\* a credential is the user a valid token was issued to, or no valid token
NoToken == "none"
Credentials == Patients \cup {NoToken}

\* ------------------------------------------------------------- strings
\* a string is the sequence of its characters
S_AVAILABLE == <<"A","V","A","I","L","A","B","L","E">>
S_BOOKED == <<"B","O","O","K","E","D">>
S_Available == <<"A","v","a","i","l","a","b","l","e">>
S_9am_available == <<"9","a","m"," ","a","v","a","i","l","a","b","l","e">>
S_Avail == <<"A","V","A","I","L">>
S_Empty == << >>

LowerCase == <<"a","b","c","d","e","f","g","h","i","j","k","l","m",
               "n","o","p","q","r","s","t","u","v","w","x","y","z">>
UpperCase == <<"A","B","C","D","E","F","G","H","I","J","K","L","M",
               "N","O","P","Q","R","S","T","U","V","W","X","Y","Z">>

\* String.prototype.toUpperCase
ToUpperChar(c) ==
    IF \E i \in DOMAIN LowerCase : LowerCase[i] = c
    THEN UpperCase[CHOOSE i \in DOMAIN LowerCase : LowerCase[i] = c]
    ELSE c

ToUpperCase(s) == [i \in DOMAIN s |-> ToUpperChar(s[i])]

\* String.prototype.includes
Includes(s, t) ==
    \E i \in 0..(Len(s) - Len(t)) : SubSeq(s, i + 1, i + Len(t)) = t

\* !event
IsNull(event) == DOMAIN event = {}

\* (ev.summary || ''): a missing summary reads as undefined, which is falsy
SummaryOrEmpty(ev) == IF "summary" \in DOMAIN ev THEN ev.summary ELSE S_Empty

\* variants of the availability test: without the upper-casing, with a
\* missing summary read as available, and with equality for containment
IsAvailableNoUpper(ev) == Includes(SummaryOrEmpty(ev), S_AVAILABLE)

IsAvailableOrMissing(ev) ==
    IF "summary" \in DOMAIN ev THEN Includes(ToUpperCase(ev.summary), S_AVAILABLE) ELSE TRUE

IsAvailableExact(ev) == ToUpperCase(SummaryOrEmpty(ev)) = S_AVAILABLE

\* (ev.summary || '').toUpperCase().includes('AVAILABLE')
IsAvailable(ev) == Includes(ToUpperCase(SummaryOrEmpty(ev)), S_AVAILABLE)

\* { summary: s, ...event }: the event's own summary, when it has one, wins
SpreadSummaryFirst(event, s) ==
    [f \in (DOMAIN event) \cup {"summary"} |->
        IF f \in DOMAIN event THEN event[f] ELSE s]

\* { id: event.id, summary: s }: a patch sent as the whole resource
SummaryPatch(event, s) == [id |-> event.id, summary |-> s]

\* { ...event, summary: s }
SpreadWithSummary(event, s) ==
    [f \in (DOMAIN event) \cup {"summary"} |->
        IF f = "summary" THEN s ELSE event[f]]

\* --------------------------------------------------------------- times
\* An ISO string is a record: a date-time [d, h] (day, hour) or a date [d].
\* new Date(iso): hours since the epoch; a date-only string is UTC midnight.
NewDate(iso) == IF "h" \in DOMAIN iso THEN iso.d * 24 + iso.h ELSE iso.d * 24

\* event.start.dateTime || event.start.date
DateTimeOrDate(t) == IF "dateTime" \in DOMAIN t THEN t.dateTime ELSE t.date

\* oneMonthFromNow.setMonth(getMonth() + 1), in a month of 30 days
OneMonthFrom(now) == now + 30 * 24

\* the instants at which a request for the available slots is served
Nows == {0, 100}

\* ------------------------------------------------------------ calendar
EventIds == {"e1", "e2"}

\* e1 is a timed event, e2 an all-day event
EventTimes(id) ==
    IF id = "e1"
    THEN [start |-> [dateTime |-> [d |-> 1, h |-> 10]],
          end   |-> [dateTime |-> [d |-> 1, h |-> 11]]]
    ELSE [start |-> [date |-> [d |-> 20]],
          end   |-> [date |-> [d |-> 21]]]

EventWith(id, s) ==
    [id |-> id, summary |-> s, start |-> EventTimes(id).start, end |-> EventTimes(id).end]

EventWithoutSummary(id) ==
    [id |-> id, start |-> EventTimes(id).start, end |-> EventTimes(id).end]

InitSummaries == {S_AVAILABLE, S_9am_available, S_BOOKED}

\* the calendars the caregiver may have prepared before the server starts
InitCalendars ==
    LET E1 == {EventWith("e1", s) : s \in InitSummaries} \cup {EventWithoutSummary("e1")}
        E2 == {EventWith("e2", S_AVAILABLE)}
    IN  {[i \in {"e1"} |-> a] : a \in E1}
        \cup {[i \in EventIds |-> IF i = "e1" THEN a ELSE b] : a \in E1, b \in E2}

\* sequences that enumerate the set S once each, in nondecreasing order of
\* the key k[x]; elements with equal keys come in any order
SortedBy(S, k) ==
    {q \in [1..Cardinality(S) -> S] :
        \A i, j \in 1..Cardinality(S) :
            i < j => (q[i] # q[j] /\ k[q[i]] <= k[q[j]])}

\* ------------------------------------------------ calendar capability
StartOf(ev) == NewDate(DateTimeOrDate(ev.start))
EndOf(ev) == NewDate(DateTimeOrDate(ev.end))

\* errors a remote call can reject with
CalendarDown == "calendar request failed"
CalendarNotFound == "calendar 404 Not Found"
LedgerDown == "ledger request failed"
NoError == ""

Resolved(data) == [ok |-> TRUE, data |-> data, err |-> NoError]
Rejected(err) == [ok |-> FALSE, data |-> NoEvent, err |-> err]

\* calendar.events.get({calendarId, eventId}).  For an id the calendar does
\* not hold, the API answers 404, which the client library raises as an
\* error; a resolution without data is the case the handlers test for.
CalendarGet(cal, eventId) ==
    IF eventId \in DOMAIN cal
    THEN {Resolved(cal[eventId]), Rejected(CalendarDown)}
    ELSE {Resolved(NoEvent), Rejected(CalendarNotFound), Rejected(CalendarDown)}

\* calendar.events.update({calendarId, eventId, resource}): a full overwrite
CalendarUpdate(cal, eventId, resource) == [cal EXCEPT ![eventId] = resource]

\* calendar.events.list({timeMin, timeMax, singleEvents, orderBy: 'startTime'})
CalendarList(cal, timeMin, timeMax) ==
    LET items == {cal[i] : i \in {j \in DOMAIN cal :
                        EndOf(cal[j]) > timeMin /\ StartOf(cal[j]) < timeMax}}
    IN  SortedBy(items, [e \in items |-> StartOf(e)])

\* events.filter(ev => (ev.summary || '').toUpperCase().includes('AVAILABLE'))
FilterAvailable(events) == SelectSeq(events, IsAvailable)

\* -------------------------------------------------- ledger capability
\* a column that `data` leaves undefined takes its default: NULL for the
\* nullable patientId, which has none
ColumnValue(v) == IF v = Undefined THEN Null ELSE v

\* an upsert keyed on googleEventId: a row of the same event is overwritten
PrismaUpsert(rows, data) ==
    LET same == {i \in DOMAIN rows : rows[i].googleEventId = data.googleEventId}
        row(id) == [id |-> id,
                    startTime |-> data.startTime,
                    endTime |-> data.endTime,
                    status |-> data.status,
                    googleEventId |-> ColumnValue(data.googleEventId),
                    patientId |-> ColumnValue(data.patientId)]
    IN  IF same = {} THEN Append(rows, row(Len(rows) + 1))
        ELSE LET k == CHOOSE i \in same : \A j \in same : i <= j
             IN  [rows EXCEPT ![k] = row(k)]

\* a create that reopens a CANCELLED row of the same event when there is one
PrismaCreateReopen(rows, data) ==
    LET old == {i \in DOMAIN rows : /\ rows[i].googleEventId = data.googleEventId
                                    /\ rows[i].status = "CANCELLED"}
    IN  IF old = {}
        THEN Append(rows, [id |-> Len(rows) + 1,
                           startTime |-> data.startTime,
                           endTime |-> data.endTime,
                           status |-> data.status,
                           googleEventId |-> ColumnValue(data.googleEventId),
                           patientId |-> ColumnValue(data.patientId)])
        ELSE LET k == CHOOSE i \in old : \A j \in old : i <= j
             IN  [rows EXCEPT ![k].status = data.status,
                              ![k].patientId = ColumnValue(data.patientId)]

\* prisma.appointment.create({data}): "id" SERIAL, rows are never deleted
PrismaCreate(rows, data) ==
    Append(rows, [id |-> Len(rows) + 1,
                  startTime |-> data.startTime,
                  endTime |-> data.endTime,
                  status |-> data.status,
                  googleEventId |-> ColumnValue(data.googleEventId),
                  patientId |-> ColumnValue(data.patientId)])

\* a filter that keeps its undefined fields: no column equals undefined
WhereMatchesLiteral(row, where) ==
    \A f \in DOMAIN where : row[f] = where[f]

\* a `where` field whose value is undefined is left out of the filter
WhereMatches(row, where) ==
    \A f \in DOMAIN where : where[f] = Undefined \/ row[f] = where[f]

\* a deleteMany in the place of the updateMany: the matching rows are removed
PrismaDeleteMany(rows, where, data) ==
    SelectSeq(rows, LAMBDA row : ~WhereMatches(row, where))

\* prisma.appointment.updateMany({where, data: {status}})
PrismaUpdateMany(rows, where, data) ==
    [i \in DOMAIN rows |->
        IF WhereMatches(rows[i], where)
        THEN [rows[i] EXCEPT !.status = data.status]
        ELSE rows[i]]

\* prisma.appointment.findMany({where, orderBy: {startTime: 'asc'}})
PrismaFindMany(rows, where) ==
    LET found == {rows[i] : i \in {j \in DOMAIN rows : WhereMatches(rows[j], where)}}
    IN  SortedBy(found, [a \in found |-> a.startTime])

\* ---------------------------------------------------------------- state
VARIABLES
    tokensSet,  \* `let tokensSet`: the calendar OAuth handshake has completed
    calendar,   \* the caregiver's calendar: event id -> event
    ledger,     \* the Appointment table: the sequence of its rows, by id
    reqs        \* the requests in flight: req, res and the handler's locals

vars == <<tokensSet, calendar, ledger, reqs>>

NoRes == [status |-> 0, msg |-> "", body |-> NoBody]

\* a request object as Express creates it: nothing has set user or userId;
\* `now` is the instant at which a listing was served
IdleReq ==
    [op |-> "idle", pc |-> "idle", user |-> Undefined, userId |-> Undefined,
     eventId |-> Undefined, now |-> 0, event |-> NoEvent, err |-> NoError,
     res |-> NoRes]

Ops == {"available", "book", "cancel", "mine"}

\* res.status(status).send(msg) / res.json(body): the handler returns and
\* its locals are gone
Respond(r, status, msg, body) ==
    reqs' = [reqs EXCEPT ![r].pc = "done", ![r].event = NoEvent,
                         ![r].res = [status |-> status, msg |-> msg, body |-> body]]

\* catch (err) { console.error(..., err); res.status(500).send(msg) }
Catch(r, err, msg) ==
    reqs' = [reqs EXCEPT ![r].pc = "done", ![r].err = err, ![r].event = NoEvent,
                         ![r].res = [status |-> 500, msg |-> msg, body |-> NoBody]]

MsgNotAuthorized == "Google calendar is not authorized yet."
MsgNotFound == "Event not found in calendar."
MsgNotAvailable == "This slot is not available anymore."
MsgBookFailed == "Failed to book appointment."
MsgCancelFailed == "Failed to cancel appointment."
MsgCancelled == "Appointment cancelled."
MsgListFailed == "Failed to fetch available slots."
MsgMineFailed == "Failed to load appointments"

BooksInFlight == Cardinality({r \in Req : reqs[r].op = "book" /\ reqs[r].pc # "done"})

Init ==
    /\ tokensSet = FALSE
    /\ calendar \in InitCalendars
    /\ ledger = << >>
    /\ reqs = [r \in Req |-> IdleReq]

\* GET /appointments/redirect: exchange the code for tokens
Redirect ==
    /\ \E ok \in BOOLEAN : tokensSet' = (tokensSet \/ ok)
    /\ UNCHANGED <<calendar, ledger, reqs>>

\* A request arrives and passes through authMiddleware: a missing or invalid
\* token, or an unknown user, ends it with 401; otherwise the user is
\* attached as req.user and the route's handler is next.
AuthMiddleware(r, op, cred, eventId) ==
    /\ reqs[r].pc = "idle"
    \* bound of the model: no more bookings than MaxRows rows can hold
    /\ op = "book" => Len(ledger) + BooksInFlight < MaxRows
    /\ IF cred = NoToken
       THEN reqs' = [reqs EXCEPT ![r] =
                [IdleReq EXCEPT !.op = op, !.eventId = eventId, !.pc = "done",
                    !.res = [status |-> 401, msg |-> "Invalid token", body |-> NoBody]]]
       ELSE reqs' = [reqs EXCEPT ![r] =
                [IdleReq EXCEPT !.op = op, !.eventId = eventId, !.pc = "handler",
                    !.user = cred]]
    /\ UNCHANGED <<tokensSet, calendar, ledger>>

\* GET /appointments/available
Available(r) ==
    /\ reqs[r].op = "available" /\ reqs[r].pc = "handler"
    /\ IF ~tokensSet
       THEN Respond(r, 400, MsgNotAuthorized, NoBody)
       ELSE \E now \in Nows, ok \in BOOLEAN :
              IF ok
              THEN \E events \in CalendarList(calendar, now, OneMonthFrom(now)) :
                      reqs' = [reqs EXCEPT ![r].pc = "done", ![r].now = now,
                                  ![r].res = [status |-> 200, msg |-> "",
                                              body |-> FilterAvailable(events)]]
              ELSE Catch(r, CalendarDown, MsgListFailed)
    /\ UNCHANGED <<tokensSet, calendar, ledger>>

\* POST /appointments/book/:eventId, up to `await calendar.events.update`:
\* the authorization check, the get, and the checks on what it returned
BookGet(r) ==
    /\ reqs[r].op = "book" /\ reqs[r].pc = "handler"
    /\ IF ~tokensSet
       THEN Respond(r, 400, MsgNotAuthorized, NoBody)
       ELSE \E got \in CalendarGet(calendar, reqs[r].eventId) :
              IF ~got.ok THEN Catch(r, got.err, MsgBookFailed)
              ELSE IF IsNull(got.data) THEN Respond(r, 404, MsgNotFound, NoBody)
              ELSE IF ~IsAvailable(got.data) THEN Respond(r, 400, MsgNotAvailable, NoBody)
              ELSE reqs' = [reqs EXCEPT ![r].pc = "update", ![r].event = got.data]
    /\ UNCHANGED <<tokensSet, calendar, ledger>>

\* the update of the event to summary 'BOOKED', up to `await ...create`
BookUpdate(r) ==
    /\ reqs[r].op = "book" /\ reqs[r].pc = "update"
    /\ \E ok \in BOOLEAN :
          IF ok
          THEN /\ calendar' = CalendarUpdate(calendar, reqs[r].eventId,
                                  SpreadWithSummary(reqs[r].event, S_BOOKED))
               /\ reqs' = [reqs EXCEPT ![r].pc = "create"]
          ELSE /\ Catch(r, CalendarDown, MsgBookFailed)
               /\ UNCHANGED calendar
    /\ UNCHANGED <<tokensSet, ledger>>

\* the insert with a compensation: when it fails, the event is relabelled
\* AVAILABLE before the failure is reported
BookCreateCompensating(r) ==
    /\ reqs[r].op = "book" /\ reqs[r].pc = "create"
    /\ \E ok \in BOOLEAN :
          IF ok
          THEN LET created == PrismaCreate(ledger,
                                [startTime |-> NewDate(DateTimeOrDate(reqs[r].event.start)),
                                 endTime |-> NewDate(DateTimeOrDate(reqs[r].event.end)),
                                 status |-> "BOOKED",
                                 googleEventId |-> reqs[r].eventId,
                                 patientId |-> reqs[r].userId])
               IN  /\ ledger' = created
                   /\ Respond(r, 200, "", <<created[Len(created)]>>)
                   /\ UNCHANGED calendar
          ELSE /\ Catch(r, LedgerDown, MsgBookFailed)
               /\ calendar' = CalendarUpdate(calendar, reqs[r].eventId,
                                  SpreadWithSummary(reqs[r].event, S_AVAILABLE))
               /\ UNCHANGED ledger
    /\ UNCHANGED tokensSet

\* the insert of the BOOKED row, and the response
BookCreate(r) ==
    /\ reqs[r].op = "book" /\ reqs[r].pc = "create"
    /\ \E ok \in BOOLEAN :
          IF ok
          THEN LET startIso == DateTimeOrDate(reqs[r].event.start)
                   endIso == DateTimeOrDate(reqs[r].event.end)
                   created == PrismaCreate(ledger,
                                [startTime |-> NewDate(startIso),
                                 endTime |-> NewDate(endIso),
                                 status |-> "BOOKED",
                                 googleEventId |-> reqs[r].eventId,
                                 patientId |-> reqs[r].userId])
               IN  /\ ledger' = created
                   /\ Respond(r, 200, "", <<created[Len(created)]>>)
          ELSE /\ Catch(r, LedgerDown, MsgBookFailed)
               /\ UNCHANGED ledger
    /\ UNCHANGED <<tokensSet, calendar>>

\* the cancel handler without its test of tokensSet
CancelGetUngated(r) ==
    /\ reqs[r].op = "cancel" /\ reqs[r].pc = "handler"
    /\ \E got \in CalendarGet(calendar, reqs[r].eventId) :
          IF ~got.ok THEN Catch(r, got.err, MsgCancelFailed)
          ELSE IF IsNull(got.data) THEN Respond(r, 404, MsgNotFound, NoBody)
          ELSE reqs' = [reqs EXCEPT ![r].pc = "update", ![r].event = got.data]
    /\ UNCHANGED <<tokensSet, calendar, ledger>>

\* POST /appointments/cancel/:eventId, up to `await calendar.events.update`
CancelGet(r) ==
    /\ reqs[r].op = "cancel" /\ reqs[r].pc = "handler"
    /\ IF ~tokensSet
       THEN Respond(r, 400, MsgNotAuthorized, NoBody)
       ELSE \E got \in CalendarGet(calendar, reqs[r].eventId) :
              IF ~got.ok THEN Catch(r, got.err, MsgCancelFailed)
              ELSE IF IsNull(got.data) THEN Respond(r, 404, MsgNotFound, NoBody)
              ELSE reqs' = [reqs EXCEPT ![r].pc = "update", ![r].event = got.data]
    /\ UNCHANGED <<tokensSet, calendar, ledger>>

\* the update of the event back to summary 'AVAILABLE'
CancelUpdate(r) ==
    /\ reqs[r].op = "cancel" /\ reqs[r].pc = "update"
    /\ \E ok \in BOOLEAN :
          IF ok
          THEN /\ calendar' = CalendarUpdate(calendar, reqs[r].eventId,
                                  SpreadWithSummary(reqs[r].event, S_AVAILABLE))
               /\ reqs' = [reqs EXCEPT ![r].pc = "updateMany"]
          ELSE /\ Catch(r, CalendarDown, MsgCancelFailed)
               /\ UNCHANGED calendar
    /\ UNCHANGED <<tokensSet, ledger>>

\* the updateMany that marks the rows CANCELLED, and the response
CancelUpdateMany(r) ==
    /\ reqs[r].op = "cancel" /\ reqs[r].pc = "updateMany"
    /\ \E ok \in BOOLEAN :
          IF ok
          THEN /\ ledger' = PrismaUpdateMany(ledger,
                                [googleEventId |-> reqs[r].eventId,
                                 patientId |-> reqs[r].userId,
                                 status |-> "BOOKED"],
                                [status |-> "CANCELLED"])
               /\ Respond(r, 200, MsgCancelled, NoBody)
          ELSE /\ Catch(r, LedgerDown, MsgCancelFailed)
               /\ UNCHANGED ledger
    /\ UNCHANGED <<tokensSet, calendar>>

\* a listing that first marks the rows it is about to return as CANCELLED
MineExpiring(r) ==
    /\ reqs[r].op = "mine" /\ reqs[r].pc = "handler"
    /\ \E ok \in BOOLEAN :
          IF ok
          THEN /\ \E appointments \in PrismaFindMany(ledger,
                                      [patientId |-> reqs[r].userId, status |-> "BOOKED"]) :
                      Respond(r, 200, "", appointments)
               /\ ledger' = PrismaUpdateMany(ledger,
                                [patientId |-> reqs[r].userId, status |-> "BOOKED"],
                                [status |-> "CANCELLED"])
          ELSE /\ Catch(r, LedgerDown, MsgMineFailed)
               /\ UNCHANGED ledger
    /\ UNCHANGED <<tokensSet, calendar>>

\* GET /appointments/mine
Mine(r) ==
    /\ reqs[r].op = "mine" /\ reqs[r].pc = "handler"
    /\ \E ok \in BOOLEAN :
          IF ok
          THEN \E appointments \in PrismaFindMany(ledger,
                                      [patientId |-> reqs[r].userId, status |-> "BOOKED"]) :
                  Respond(r, 200, "", appointments)
          ELSE Catch(r, LedgerDown, MsgMineFailed)
    /\ UNCHANGED <<tokensSet, calendar, ledger>>

\* the response has been sent: the request is over
Finish(r) ==
    /\ reqs[r].pc = "done"
    /\ reqs' = [reqs EXCEPT ![r] = IdleReq]
    /\ UNCHANGED <<tokensSet, calendar, ledger>>

Next ==
    \/ Redirect
    \/ \E r \in Req, op \in Ops, cred \in Credentials :
          \E eventId \in (IF op \in {"book", "cancel"} THEN EventIds ELSE {Undefined}) :
              AuthMiddleware(r, op, cred, eventId)
    \/ \E r \in Req : Available(r)
    \/ \E r \in Req : BookGet(r)
    \/ \E r \in Req : BookUpdate(r)
    \/ \E r \in Req : BookCreate(r)
    \/ \E r \in Req : CancelGet(r)
    \/ \E r \in Req : CancelUpdate(r)
    \/ \E r \in Req : CancelUpdateMany(r)
    \/ \E r \in Req : Mine(r)
    \/ \E r \in Req : Finish(r)

Spec == Init /\ [][Next]_vars

(***************************************************************************)
(* Properties                                                              *)
(***************************************************************************)
\* the labels of the model that contain the token AVAILABLE, whatever the case
TokenLabels == {S_AVAILABLE, S_Available, S_9am_available}
HasToken(ev) == "summary" \in DOMAIN ev /\ ev.summary \in TokenLabels

\* request r takes the step of its handler that leads from pc `from`
Leaves(r, op, from) ==
    reqs[r].op = op /\ reqs[r].pc = from /\ reqs'[r].pc # from

Succeeds(r) == reqs'[r].pc = "done" /\ reqs'[r].res.status = 200
Fails(r) == reqs'[r].pc = "done" /\ reqs'[r].res.status = 500

BookedRowsOf(rows, e) ==
    {i \in DOMAIN rows : rows[i].googleEventId = e /\ rows[i].status = "BOOKED"}

OtherEventsUnchanged(e) ==
    /\ DOMAIN calendar' = DOMAIN calendar
    /\ \A x \in DOMAIN calendar : x # e => calendar'[x] = calendar[x]

\* C1: a book call on a slot whose label contains AVAILABLE (in any case),
\* none of whose steps fails, passes the availability check, sets the label
\* of that slot to BOOKED, and appends exactly one row, BOOKED and referring
\* to the slot; no step of the call adds or changes any other row.
C1_BookBooksSlot ==
    [][\A r \in Req :
        LET e == reqs[r].eventId IN
        /\ ( /\ Leaves(r, "book", "handler") /\ tokensSet /\ ~Fails(r)
             /\ e \in DOMAIN calendar /\ HasToken(calendar[e]) )
           => /\ reqs'[r].pc = "update"
              /\ calendar' = calendar /\ ledger' = ledger
        /\ (Leaves(r, "book", "update") /\ ~Fails(r))
           => /\ reqs'[r].pc = "create"
              /\ calendar'[e].summary = S_BOOKED
              /\ OtherEventsUnchanged(e)
              /\ ledger' = ledger
        /\ (Leaves(r, "book", "update") /\ Fails(r))
           => (calendar' = calendar /\ ledger' = ledger)
        /\ (Leaves(r, "book", "create") /\ ~Fails(r))
           => /\ Succeeds(r)
              /\ calendar' = calendar
              /\ Len(ledger') = Len(ledger) + 1
              /\ SubSeq(ledger', 1, Len(ledger)) = ledger
              /\ ledger'[Len(ledger')].status = "BOOKED"
              /\ ledger'[Len(ledger')].googleEventId = e
              /\ reqs'[r].res.body = <<ledger'[Len(ledger')]>>
        /\ (Leaves(r, "book", "create") /\ Fails(r))
           => (calendar' = calendar /\ ledger' = ledger)
    ]_vars

\* a book call has succeeded: the label is BOOKED and its row is in the ledger
C1_Witness ==
    \E r \in Req :
        /\ reqs[r].op = "book" /\ reqs[r].pc = "done" /\ reqs[r].res.status = 200
        /\ reqs[r].user \in Patients
        /\ calendar[reqs[r].eventId].summary = S_BOOKED
        /\ \E i \in DOMAIN ledger :
              /\ ledger[i] = reqs[r].res.body[1]
              /\ ledger[i].status = "BOOKED"
              /\ ledger[i].googleEventId = reqs[r].eventId

\* C2: a book call on a slot that exists and whose label does not contain
\* AVAILABLE ends with Conflict (400, "This slot is not available anymore.")
\* at its check, with the calendar and the ledger as they were.
C2_BookConflict ==
    [][\A r \in Req :
        LET e == reqs[r].eventId IN
        ( /\ Leaves(r, "book", "handler") /\ tokensSet /\ ~Fails(r)
          /\ e \in DOMAIN calendar /\ ~HasToken(calendar[e]) )
        => /\ reqs'[r].pc = "done"
           /\ reqs'[r].res.status = 400
           /\ reqs'[r].res.msg = MsgNotAvailable
           /\ calendar' = calendar /\ ledger' = ledger
    ]_vars

\* a book call has ended with Conflict on a slot without the token
C2_Witness ==
    \E r \in Req :
        /\ reqs[r].op = "book" /\ reqs[r].pc = "done"
        /\ reqs[r].res.status = 400 /\ reqs[r].res.msg = MsgNotAvailable
        /\ reqs[r].eventId \in DOMAIN calendar
        /\ ~HasToken(calendar[reqs[r].eventId])

\* C3: in every reachable state at most one row with status BOOKED refers
\* to a given slot.
C3_OneBookedRowPerSlot ==
    \A e \in EventIds : Cardinality(BookedRowsOf(ledger, e)) <= 1

\* C4: when a book call has succeeded on a slot and a second book call on
\* the same slot, which passed the availability check as well, inserts its
\* row while the first row is BOOKED and the label is BOOKED, the second
\* call succeeds too, the label stays BOOKED and the ledger holds two BOOKED
\* rows referring to the slot.
C4_BothBookingsSucceed ==
    [][\A r1, r2 \in Req :
        LET e == reqs[r2].eventId IN
        ( /\ r1 # r2
          /\ reqs[r1].op = "book" /\ reqs[r1].pc = "done" /\ reqs[r1].res.status = 200
          /\ reqs[r1].eventId = e
          /\ ledger[reqs[r1].res.body[1].id].status = "BOOKED"
          /\ calendar[e].summary = S_BOOKED
          /\ Leaves(r2, "book", "create") /\ ~Fails(r2) )
        => /\ Succeeds(r2)
           /\ calendar'[e].summary = S_BOOKED
           /\ reqs'[r2].res.body[1].id # reqs[r1].res.body[1].id
           /\ {reqs[r1].res.body[1].id, reqs'[r2].res.body[1].id}
                 \subseteq BookedRowsOf(ledger', e)
    ]_vars

\* two book calls on the same slot have both succeeded: the label is BOOKED
\* and both their rows are BOOKED
C4_Witness ==
    \E r1, r2 \in Req :
        /\ r1 # r2
        /\ reqs[r1].op = "book" /\ reqs[r1].pc = "done" /\ reqs[r1].res.status = 200
        /\ reqs[r2].op = "book" /\ reqs[r2].pc = "done" /\ reqs[r2].res.status = 200
        /\ reqs[r1].eventId = reqs[r2].eventId
        /\ reqs[r1].res.body[1].id # reqs[r2].res.body[1].id
        /\ calendar[reqs[r1].eventId].summary = S_BOOKED
        /\ {reqs[r1].res.body[1].id, reqs[r2].res.body[1].id}
              \subseteq BookedRowsOf(ledger, reqs[r1].eventId)

\* the rows that a cancel of slot e by patient u is to cancel
OwnBookedRows(rows, e, u) ==
    {i \in DOMAIN rows : /\ rows[i].googleEventId = e
                         /\ rows[i].patientId = u
                         /\ rows[i].status = "BOOKED"}

\* C5: a cancel call none of whose steps fails changes to CANCELLED exactly
\* the rows of its slot, of the authenticated patient, with status BOOKED;
\* every other row is unchanged.
C5_CancelOnlyOwnRows ==
    [][\A r \in Req :
        (Leaves(r, "cancel", "updateMany") /\ ~Fails(r))
        => /\ Len(ledger') = Len(ledger)
           /\ \A i \in DOMAIN ledger :
                 IF i \in OwnBookedRows(ledger, reqs[r].eventId, reqs[r].user)
                 THEN ledger'[i] = [ledger[i] EXCEPT !.status = "CANCELLED"]
                 ELSE ledger'[i] = ledger[i]
    ]_vars

\* C6: listMine returns exactly the rows whose patient reference is the
\* authenticated patient and whose status is BOOKED.
C6_MineOnlyOwnBooked ==
    [][\A r \in Req :
        (Leaves(r, "mine", "handler") /\ ~Fails(r))
        => /\ Succeeds(r)
           /\ {reqs'[r].res.body[i] : i \in DOMAIN reqs'[r].res.body}
                = {ledger[i] : i \in {j \in DOMAIN ledger :
                        /\ ledger[j].patientId = reqs[r].user
                        /\ ledger[j].status = "BOOKED"}}
    ]_vars

\* C7: a cancel call on an existing slot goes on to the relabelling whatever
\* the label is (there is no Conflict for cancel), the relabelling sets the
\* label to AVAILABLE, and the call then succeeds unless a step fails.
C7_CancelRelabelsUnconditionally ==
    [][\A r \in Req :
        LET e == reqs[r].eventId IN
        /\ ( /\ Leaves(r, "cancel", "handler") /\ tokensSet /\ ~Fails(r)
             /\ e \in DOMAIN calendar )
           => (reqs'[r].pc = "update" /\ calendar' = calendar)
        /\ (Leaves(r, "cancel", "update") /\ ~Fails(r))
           => /\ reqs'[r].pc = "updateMany"
              /\ calendar'[e].summary = S_AVAILABLE
              /\ OtherEventsUnchanged(e)
        /\ (Leaves(r, "cancel", "updateMany") /\ ~Fails(r))
           => (Succeeds(r) /\ calendar' = calendar)
    ]_vars

\* a cancel call has relabelled a slot that was already AVAILABLE when it
\* fetched it
C7_Witness ==
    \E r \in Req :
        /\ reqs[r].op = "cancel" /\ reqs[r].pc = "updateMany"
        /\ HasToken(reqs[r].event)
        /\ calendar[reqs[r].eventId].summary = S_AVAILABLE

\* C8: book and cancel on a slot id the calendar does not hold end with
\* NotFound (404), and change no label and no row, whenever the calendar
\* can be reached.
C8_UnknownSlotNotFound ==
    [][\A r \in Req :
        ( /\ Leaves(r, "book", "handler") \/ Leaves(r, "cancel", "handler")
          /\ tokensSet
          /\ reqs[r].eventId \notin DOMAIN calendar
          /\ reqs'[r].err # CalendarDown )
        => /\ reqs'[r].pc = "done"
           /\ reqs'[r].res.status = 404
           /\ reqs'[r].res.msg = MsgNotFound
           /\ calendar' = calendar /\ ledger' = ledger
    ]_vars

\* C9: a cancel call for which no row matches (its slot, the authenticated
\* patient, BOOKED) reports success and leaves the ledger unchanged.
C9_CancelWithoutMatchIsNoOp ==
    [][\A r \in Req :
        ( /\ Leaves(r, "cancel", "updateMany") /\ ~Fails(r)
          /\ OwnBookedRows(ledger, reqs[r].eventId, reqs[r].user) = {} )
        => (Succeeds(r) /\ ledger' = ledger)
    ]_vars

\* ----------------------------------------- the listing on its own
\* calendars with labels in every case, with the token inside a longer
\* label, with a prefix of the token, and without a label
ListSummaries == {S_AVAILABLE, S_Available, S_9am_available, S_BOOKED, S_Avail, S_Empty}

InitList ==
    /\ tokensSet = FALSE
    /\ calendar \in
          LET E1 == {EventWith("e1", s) : s \in ListSummaries}
                        \cup {EventWithoutSummary("e1")}
              E2 == {EventWith("e2", s) : s \in {S_Available, S_Avail}}
                        \cup {EventWithoutSummary("e2")}
          IN  {[i \in {"e1"} |-> a] : a \in E1}
              \cup {[i \in EventIds |-> IF i = "e1" THEN a ELSE b] : a \in E1, b \in E2}
    /\ ledger = << >>
    /\ reqs = [r \in Req |-> IdleReq]

NextList ==
    \/ Redirect
    \/ \E r \in Req, cred \in Credentials : AuthMiddleware(r, "available", cred, Undefined)
    \/ \E r \in Req : Available(r)
    \/ \E r \in Req : Finish(r)

SpecList == InitList /\ [][NextList]_vars

\* C10: listAvailable returns, of the slots the calendar returned for the
\* window and in their order, exactly those whose label contains the token
\* AVAILABLE in any case.
C10_ListExactlyAvailable ==
    [][\A r \in Req :
        (Leaves(r, "available", "handler") /\ Succeeds(r))
        => \E events \in CalendarList(calendar, reqs'[r].now, OneMonthFrom(reqs'[r].now)) :
              reqs'[r].res.body = SelectSeq(events, HasToken)
    ]_vars

\* a listing has kept a slot labelled in mixed case and dropped another slot
C10_Witness ==
    \E r \in Req :
        /\ reqs[r].op = "available" /\ reqs[r].pc = "done" /\ reqs[r].res.status = 200
        /\ Len(reqs[r].res.body) = 1
        /\ reqs[r].res.body[1].summary \in {S_Available, S_9am_available}
        /\ DOMAIN calendar = EventIds
        /\ ~HasToken(calendar["e1"])

\* ------------------------------------------------ the handshake
\* request r, which has not answered yet, answers 200 in this step
AnswersOk(r) == reqs[r].pc # "done" /\ Succeeds(r)

\* C11 as stated: while the handshake has not completed, none of the four
\* operations succeeds and none changes a label or a row.
C11_NothingSucceedsBeforeHandshake ==
    [][~tokensSet =>
        /\ calendar' = calendar /\ ledger' = ledger
        /\ \A r \in Req : ~AnswersOk(r)
    ]_vars

\* C11 as amended: while the handshake has not completed, listAvailable,
\* book and cancel do not succeed (their handlers answer 400 "Google
\* calendar is not authorized yet."), and no operation, listMine included,
\* changes a label or a row.
C11_CalendarOpsGatedByHandshake ==
    [][~tokensSet =>
        /\ calendar' = calendar /\ ledger' = ledger
        /\ \A r \in Req :
              /\ reqs[r].op \in {"available", "book", "cancel"} => ~AnswersOk(r)
              /\ \A op \in {"available", "book", "cancel"} :
                    Leaves(r, op, "handler")
                    => /\ reqs'[r].pc = "done"
                       /\ reqs'[r].res.status = 400
                       /\ reqs'[r].res.msg = MsgNotAuthorized
    ]_vars

\* before the handshake a cancel has been refused and a listMine has succeeded
C11_Witness ==
    /\ ~tokensSet
    /\ \E r1, r2 \in Req :
          /\ reqs[r1].op = "cancel" /\ reqs[r1].pc = "done"
          /\ reqs[r1].res.status = 400 /\ reqs[r1].res.msg = MsgNotAuthorized
          /\ reqs[r2].op = "mine" /\ reqs[r2].pc = "done" /\ reqs[r2].res.status = 200

\* C12: the row a book call has created carries, as its patient reference,
\* the patient that the authentication step established for the call.
C12_RowCarriesPatient ==
    \A r \in Req :
        (reqs[r].op = "book" /\ reqs[r].pc = "done" /\ reqs[r].res.status = 200)
        => reqs[r].res.body[1].patientId = reqs[r].user

\* C13: when the insert of a book call fails, the call answers 500 and is
\* over, and that step changes neither the calendar (the label its update
\* wrote is not restored) nor the ledger (no row is created); the only step
\* left to the call, the end of the request, changes neither.
C13_NoCompensation ==
    [][\A r \in Req :
        /\ (Leaves(r, "book", "create") /\ reqs'[r].err = LedgerDown)
           => /\ reqs'[r].pc = "done"
              /\ reqs'[r].res.status = 500
              /\ reqs'[r].res.msg = MsgBookFailed
              /\ calendar' = calendar /\ ledger' = ledger
        /\ (reqs[r].op = "book" /\ reqs[r].pc = "done" /\ reqs'[r] # reqs[r])
           => /\ reqs'[r] = IdleReq
              /\ calendar' = calendar /\ ledger' = ledger
    ]_vars

\* a book call has failed at its insert: the slot is labelled BOOKED and no
\* row refers to it
C13_Witness ==
    \E r \in Req :
        /\ reqs[r].op = "book" /\ reqs[r].pc = "done"
        /\ reqs[r].res.status = 500 /\ reqs[r].err = LedgerDown
        /\ calendar[reqs[r].eventId].summary = S_BOOKED
        /\ \A i \in DOMAIN ledger : ledger[i].googleEventId # reqs[r].eventId

\* C14: no step deletes a row or changes the slot reference, the patient
\* reference or the time range of a row; the status of a row changes only
\* from BOOKED to CANCELLED, and no row has status AVAILABLE.
C14_RowsOnlyGetCancelled ==
    [][/\ Len(ledger') >= Len(ledger)
       /\ \A i \in DOMAIN ledger :
             \/ ledger'[i] = ledger[i]
             \/ /\ ledger[i].status = "BOOKED"
                /\ ledger'[i] = [ledger[i] EXCEPT !.status = "CANCELLED"]
       /\ \A i \in DOMAIN ledger' : ledger'[i].status \in {"BOOKED", "CANCELLED"}
    ]_vars

\* a cancel call has succeeded and left a CANCELLED row of its slot
C14_Witness ==
    \E r \in Req :
        /\ reqs[r].op = "cancel" /\ reqs[r].pc = "done" /\ reqs[r].res.status = 200
        /\ \E i \in DOMAIN ledger :
              /\ ledger[i].status = "CANCELLED"
              /\ ledger[i].googleEventId = reqs[r].eventId
              /\ ledger[i].id = i

\* ------------------------------- runs without failures, without overlap
InFlight(r) == reqs[r].pc \notin {"idle", "done"}

\* no remote call rejects in this step: no handler reaches its catch
NoFailure == \A r \in Req : ~Fails(r)

\* a request arrives only when no other request is in flight: every handler
\* runs to completion before the next one starts
NoOverlap == \A q \in Req : ~InFlight(q)

\* the runs in which no remote call rejects
NextNoFail ==
    \/ Redirect
    \/ \E r \in Req, op \in Ops, cred \in Credentials :
          \E eventId \in (IF op \in {"book", "cancel"} THEN EventIds ELSE {Undefined}) :
              AuthMiddleware(r, op, cred, eventId)
    \/ \E r \in Req : Available(r) /\ NoFailure
    \/ \E r \in Req : BookGet(r) /\ NoFailure
    \/ \E r \in Req : BookUpdate(r) /\ NoFailure
    \/ \E r \in Req : BookCreate(r) /\ NoFailure
    \/ \E r \in Req : CancelGet(r) /\ NoFailure
    \/ \E r \in Req : CancelUpdate(r) /\ NoFailure
    \/ \E r \in Req : CancelUpdateMany(r) /\ NoFailure
    \/ \E r \in Req : Mine(r) /\ NoFailure
    \/ \E r \in Req : Finish(r)

\* every slot of the calendar starts out available
InitAvailable == Init /\ \A e \in DOMAIN calendar : IsAvailable(calendar[e])

SpecNoFail == InitAvailable /\ [][NextNoFail]_vars

\* the runs in which, moreover, the handlers do not overlap
NextSeq ==
    \/ Redirect
    \/ \E r \in Req, op \in Ops, cred \in Credentials :
          \E eventId \in (IF op \in {"book", "cancel"} THEN EventIds ELSE {Undefined}) :
              NoOverlap /\ AuthMiddleware(r, op, cred, eventId)
    \/ \E r \in Req : Available(r) /\ NoFailure
    \/ \E r \in Req : BookGet(r) /\ NoFailure
    \/ \E r \in Req : BookUpdate(r) /\ NoFailure
    \/ \E r \in Req : BookCreate(r) /\ NoFailure
    \/ \E r \in Req : CancelGet(r) /\ NoFailure
    \/ \E r \in Req : CancelUpdate(r) /\ NoFailure
    \/ \E r \in Req : CancelUpdateMany(r) /\ NoFailure
    \/ \E r \in Req : Mine(r) /\ NoFailure
    \/ \E r \in Req : Finish(r)

SpecSeq == Init /\ [][NextSeq]_vars

\* C15: in the runs without overlap and without failure, (a) when the
\* patient whose booking of a slot succeeded and whose row is BOOKED cancels
\* the slot, the slot is labelled AVAILABLE and that row is CANCELLED;
\* (b) a book call on a slot labelled AVAILABLE that already has a CANCELLED
\* row passes the check, succeeds, and its row has an identifier no earlier
\* row has, while every earlier row stays as it is.
C15_RebookCreatesNewRow ==
    [][/\ \A r1, r2 \in Req :
            LET e == reqs[r2].eventId
                k == reqs[r1].res.body[1].id
            IN  ( /\ r1 # r2
                  /\ reqs[r1].op = "book" /\ reqs[r1].pc = "done"
                  /\ reqs[r1].res.status = 200
                  /\ reqs[r1].eventId = e /\ reqs[r1].user = reqs[r2].user
                  /\ ledger[k].status = "BOOKED"
                  /\ Leaves(r2, "cancel", "updateMany") )
                => /\ Succeeds(r2)
                   /\ calendar'[e].summary = S_AVAILABLE
                   /\ ledger'[k].status = "CANCELLED"
       /\ \A r \in Req :
            LET e == reqs[r].eventId
                had == \E i \in DOMAIN ledger : /\ ledger[i].googleEventId = e
                                                /\ ledger[i].status = "CANCELLED"
            IN  /\ ( /\ Leaves(r, "book", "handler") /\ tokensSet /\ had
                     /\ e \in DOMAIN calendar /\ calendar[e].summary = S_AVAILABLE )
                   => reqs'[r].pc = "update"
                /\ (Leaves(r, "book", "create") /\ had)
                   => /\ Succeeds(r)
                      /\ \A i \in DOMAIN ledger :
                            /\ ledger'[i] = ledger[i]
                            /\ ledger[i].id # reqs'[r].res.body[1].id
                      /\ reqs'[r].res.body[1].status = "BOOKED"
                      /\ reqs'[r].res.body[1].googleEventId = e
                      /\ \E j \in DOMAIN ledger' : ledger'[j] = reqs'[r].res.body[1]
    ]_vars

\* a slot has been booked, cancelled and booked again: row 1 is CANCELLED
\* and the second booking answered with row 2
C15_Witness ==
    \E r \in Req :
        /\ reqs[r].op = "book" /\ reqs[r].pc = "done" /\ reqs[r].res.status = 200
        /\ Len(ledger) = 2
        /\ reqs[r].res.body[1] = ledger[2]
        /\ ledger[1].status = "CANCELLED" /\ ledger[2].status = "BOOKED"
        /\ ledger[1].googleEventId = reqs[r].eventId
        /\ ledger[2].googleEventId = reqs[r].eventId
        /\ calendar[reqs[r].eventId].summary = S_BOOKED

\* C16: the update issued by book and by cancel writes, for the addressed
\* event, the identifier, start and end that the same call fetched, with
\* only the summary replaced, and writes no other event.
C16_UpdateRoundTrips ==
    [][\A r \in Req :
        LET e == reqs[r].eventId IN
        ( /\ Leaves(r, "book", "update") \/ Leaves(r, "cancel", "update")
          /\ ~Fails(r) )
        => /\ DOMAIN calendar'[e] = (DOMAIN reqs[r].event) \cup {"summary"}
           /\ \A f \in (DOMAIN reqs[r].event) \ {"summary"} :
                 calendar'[e][f] = reqs[r].event[f]
           /\ calendar'[e].id = e
           /\ calendar'[e].start = EventTimes(e).start
           /\ calendar'[e].end = EventTimes(e).end
           /\ OtherEventsUnchanged(e)
    ]_vars

\* a book call has relabelled the all-day event and a cancel call an event
\* that had no summary: both wrote back the times they fetched
C16_Witness ==
    \E r1, r2 \in Req :
        /\ reqs[r1].op = "book" /\ reqs[r1].pc = "create" /\ reqs[r1].eventId = "e2"
        /\ calendar["e2"].summary = S_BOOKED
        /\ calendar["e2"].start = reqs[r1].event.start
        /\ calendar["e2"].end = reqs[r1].event.end
        /\ reqs[r2].op = "cancel" /\ reqs[r2].pc = "updateMany" /\ reqs[r2].eventId = "e1"
        /\ "summary" \notin DOMAIN reqs[r2].event
        /\ calendar["e1"].summary = S_AVAILABLE
        /\ calendar["e1"].start = reqs[r2].event.start
        /\ calendar["e1"].end = reqs[r2].event.end

\* C17: no step of a listAvailable or of a listMine request, whether it
\* ends in success or in failure, changes the calendar or the ledger.
C17_ListsArePureReads ==
    [][\A r \in Req :
        ( /\ reqs'[r] # reqs[r]
          /\ reqs[r].op \in {"available", "mine"} \/ reqs'[r].op \in {"available", "mine"} )
        => (calendar' = calendar /\ ledger' = ledger)
    ]_vars

\* a listMine has returned a BOOKED row, which is still BOOKED in the ledger
C17_Witness ==
    \E r \in Req :
        /\ reqs[r].op = "mine" /\ reqs[r].pc = "done" /\ reqs[r].res.status = 200
        /\ Len(reqs[r].res.body) >= 1
        /\ \A i \in DOMAIN reqs[r].res.body :
              ledger[reqs[r].res.body[i].id] = reqs[r].res.body[i]

\* C18: in the runs without overlap and without failure, at most one row
\* with status BOOKED refers to any slot.
C18_SequentialOneBookedRow ==
    \A e \in EventIds :
        \A i, j \in DOMAIN ledger :
            ( /\ ledger[i].googleEventId = e /\ ledger[j].googleEventId = e
              /\ ledger[i].status = "BOOKED" /\ ledger[j].status = "BOOKED" )
            => i = j

\* a slot has two rows, of which exactly one is BOOKED
C18_Witness ==
    \E i, j \in DOMAIN ledger :
        /\ i # j
        /\ ledger[i].googleEventId = ledger[j].googleEventId
        /\ ledger[i].status = "CANCELLED" /\ ledger[j].status = "BOOKED"

\* C19: in the runs without failure that start from available slots and no
\* rows, whenever no request is in flight every slot is labelled BOOKED if
\* and only if some BOOKED row refers to it.
C19_CalendarAgreesWithLedger ==
    (\A r \in Req : ~InFlight(r))
    => \A e \in DOMAIN calendar :
          (calendar[e].summary = S_BOOKED) <=> (BookedRowsOf(ledger, e) # {})

====
